---- MODULE Spec2Model ----
(***************************************************************************)
(* Model of the Rigol DP800 driver class `dp800` (src/dp800/dp800.py).     *)
(*                                                                         *)
(* One driver instance talks to one instrument through VISA sessions.      *)
(* Every public method is one action: the driver is single-threaded and    *)
(* synchronous, so a method runs to its return or to the first exception.  *)
(* The transport (pyvisa) is the environment: each of its calls may raise, *)
(* which is an input of the action (failAt, openOk).                       *)
(*                                                                         *)
(* A command string is kept as the sequence of its tokens, separators      *)
(* (" ", ",", "?") being tokens of their own, so that the shape of a       *)
(* command can be inspected.                                               *)
(***************************************************************************)
EXTENDS Integers, Sequences, FiniteSets, TLC

VARIABLES
    instr,      \* self.instr: 0 = attribute not set, else the id of a session
    sess,       \* the sessions rm.open_resource has returned, by id:
                \* "open" or "closed"
    partial,    \* the connect() that set self.instr raised in reset() or
                \* set_remote(), after the open
    calls,      \* the transport calls the last operation issued, in order
    lastOp,     \* the last operation: its name, arguments and outcome
    outOff,     \* per channel: an output-disable was accepted by the
                \* transport since the last accepted output-enable
    volt        \* per channel: the voltage text held by a loopback transport
                \* that stores what is written to it; only such a transport
                \* changes it

vars == <<instr, sess, partial, calls, lastOp, outOff, volt>>

----------------------------------------------------------------------------
(* Bounds of the model and constants of the program *)

MaxSessions == 2        \* sessions one run may open
MaxVolt == 2            \* voltages 0..MaxVolt written through the loopback
RegMargin == 2          \* register values tried on each side of 0 and of 255
NChannels == 3          \* disconnect(): for channel in [1, 2, 3]
RegMin == 0             \* (value >= 0)
RegMax == 255           \* (value <= 255)

Channels == 1..NChannels
RegisterValues ==
    ((RegMin - RegMargin)..(RegMin + RegMargin))
    \cup ((RegMax - RegMargin)..(RegMax + RegMargin))
MaxCalls == NChannels + 1   \* most write/query calls one method issues

----------------------------------------------------------------------------
(* Python values passed as arguments, and their f-string rendering *)

PyNone == [t |-> "none"]
PyInt(i) == [t |-> "int", i |-> i]
PyStr(s) == [t |-> "str", s |-> s]
PyBool(b) == [t |-> "bool", b |-> b]

IsNone(v) == v.t = "none"
IsTrue(v) == v.t = "bool" /\ v.b            \* `v is True`

Fmt(v) ==
    CASE v.t = "none" -> "None"
      [] v.t = "int"  -> ToString(v.i)
      [] v.t = "str"  -> v.s
      [] v.t = "bool" -> IF v.b THEN "True" ELSE "False"
      [] v.t = "float" -> ToString(v.i) \o "." \o ToString(v.f)

ChannelArgs == {PyNone} \cup {PyInt(c) : c \in Channels}
ValueArgs == {PyNone, PyInt(5), PyStr("MIN")}
EnableArgs == {PyBool(TRUE), PyBool(FALSE)}
\* and values a caller may pass for a flag that are not booleans
AnyEnableArgs == EnableArgs \cup {PyInt(1), PyStr("ON"), PyNone}

----------------------------------------------------------------------------
(* Transport calls *)

W(cmd) == [cmd |-> cmd, kind |-> "write"]
Q(cmd) == [cmd |-> cmd, kind |-> "query"]

OpenCall(s, ok) == [sess |-> s, cmd |-> <<>>, kind |-> "open", ok |-> ok, live |-> ok]
CloseCall(s) == [sess |-> s, cmd |-> <<>>, kind |-> "close", ok |-> TRUE, live |-> TRUE]

AllOk(cs) == \A i \in DOMAIN cs : cs[i].ok

\* a method body that issues a call again after it raised
ExecRetrying(plan, s, isOpen, failAt) ==
    LET stop == IF ~isOpen THEN 1
                ELSE IF failAt \in 1..Len(plan) THEN failAt ELSE 0
        n == IF stop = 0 THEN Len(plan) ELSE stop + 1
    IN [i \in 1..n |-> [sess |-> s, cmd |-> plan[IF i > Len(plan) THEN stop ELSE i].cmd,
                        kind |-> plan[IF i > Len(plan) THEN stop ELSE i].kind,
                        ok |-> (i # stop), live |-> isOpen]]

\* The calls of a straight-line method body `plan` on session s: the first call
\* that raises ends the method.  A call on a closed session always raises
\* (pyvisa InvalidSession); on an open one the call numbered failAt raises.
Exec(plan, s, isOpen, failAt) ==
    LET stop == IF ~isOpen THEN 1
                ELSE IF failAt \in 1..Len(plan) THEN failAt ELSE 0
        n == IF stop = 0 THEN Len(plan) ELSE stop
    IN [i \in 1..n |-> [sess |-> s, cmd |-> plan[i].cmd, kind |-> plan[i].kind,
                        ok |-> (i # stop), live |-> isOpen]]

IsOpen(s) == s \in DOMAIN sess /\ sess[s] = "open"
OpenSessions == {s \in DOMAIN sess : sess[s] = "open"}

----------------------------------------------------------------------------
(* Command encoders *)

ChTok(v) == "CH" \o Fmt(v)

ResetCmd == <<"*RST">>
SetRemoteCmd == <<":SYST:REM">>
SetLocalCmd == <<":SYST:LOC">>
GetIdCmd == <<"*IDN", "?">>

SetOutputEnableCmd(enable, channel) ==
    <<":OUTP", " ">>
    \o (IF ~IsNone(channel) THEN <<" ", ChTok(channel), ",">> ELSE <<>>)
    \o (IF IsTrue(enable) THEN <<"ON">> ELSE <<"OFF">>)

EseCmd(value) == <<"*ESE", " ", Fmt(PyInt(value))>>
SreCmd(value) == <<"*SRE", " ", Fmt(PyInt(value))>>

\* a register check that is off by one at the upper end
RegisterInRangeOffByOne(value) == (value >= RegMin) /\ (value < RegMax)

RegisterInRange(value) == (value >= RegMin) /\ (value <= RegMax)

\* {voltage is not None} & {current is not None}: the intersection of two
\* one-element sets, truthy when it is not empty
SetApplyCurrentTest(voltage, current) ==
    ({~IsNone(voltage)} \cap {~IsNone(current)}) # {}

SetApplyCmd(channel, voltage, current) ==
    <<":APPL", " ">>
    \o (IF ~IsNone(channel) THEN <<ChTok(channel), ",">> ELSE <<>>)
    \o (IF ~IsNone(voltage) THEN <<Fmt(voltage)>> ELSE <<>>)
    \o (IF SetApplyCurrentTest(voltage, current) THEN <<",", Fmt(current)>> ELSE <<>>)

----------------------------------------------------------------------------
(* The record of what the transport accepted *)

NoSpaces(cmd) == SelectSeq(cmd, LAMBDA x : x # " ")

AcceptOne(off, c) ==
    LET t == NoSpaces(c.cmd) IN
    IF ~(c.kind = "write" /\ c.ok) THEN off
    ELSE IF Len(t) = 4 /\ t[1] = ":OUTP" /\ t[3] = ","
            /\ \E ch \in Channels : t[2] = ChTok(PyInt(ch))
         THEN [ch \in Channels |->
                 IF t[2] = ChTok(PyInt(ch)) THEN t[4] = "OFF" ELSE off[ch]]
    ELSE IF t = <<":OUTP", "ON">> THEN [ch \in Channels |-> FALSE]
    ELSE off

RECURSIVE AcceptAll(_, _)
AcceptAll(off, cs) ==
    IF cs = <<>> THEN off ELSE AcceptAll(AcceptOne(off, Head(cs)), Tail(cs))

Finish(name, args, cs, result) ==
    /\ calls' = cs
    /\ lastOp' = [name |-> name, args |-> args, result |-> result]
    /\ outOff' = AcceptAll(outOff, cs)

----------------------------------------------------------------------------
(* connect / disconnect *)

\* connect() entering remote mode before it resets
ConnectPlanRemoteFirst(reset) ==
    <<W(SetRemoteCmd)>>
    \o (IF reset THEN <<W(ResetCmd)>> ELSE <<>>)
    \o <<Q(GetIdCmd)>>

ConnectPlan(reset) ==
    (IF reset THEN <<W(ResetCmd)>> ELSE <<>>)
    \o <<W(SetRemoteCmd), Q(GetIdCmd)>>

\* a connect() that clears the handle when the open raises
ConnectFailHandleCleared(old) == 0

\* self.instr when rm.open_resource raises: the assignment never happens
ConnectFailHandle(old) == old

\* a connect() that rolls back: closes the session when a later step raises
ConnectSessStateRollback(allOk) == IF allOk THEN "open" ELSE "closed"

\* the session connect() opened, when a later step of connect() raises or not
ConnectSessState(allOk) == "open"

\* a write of connect() raised (reset or set_remote), not the identity query
WriteRaised(cs) == cs # <<>> /\ ~cs[Len(cs)].ok /\ cs[Len(cs)].kind = "write"

Connect(reset, openOk, failAt) ==
    /\ openOk => Len(sess) < MaxSessions
    /\ IF ~openOk
       THEN /\ instr' = ConnectFailHandle(instr)
            /\ UNCHANGED <<sess, partial, volt>>
            /\ Finish("connect", [reset |-> reset, opened |-> FALSE],
                      <<OpenCall(0, FALSE)>>, "TransportError")
       ELSE LET s == Len(sess) + 1
                cs == Exec(ConnectPlan(reset), s, TRUE, failAt)
            IN /\ instr' = s
               /\ sess' = Append(sess, ConnectSessState(AllOk(cs)))
               /\ partial' = WriteRaised(cs)
               /\ UNCHANGED volt
               /\ Finish("connect", [reset |-> reset, opened |-> TRUE],
                         <<OpenCall(s, TRUE)>> \o cs,
                         IF AllOk(cs) THEN "ok" ELSE "TransportError")

\* disconnect() visiting the channels in another order
DisconnectChannelsSwapped == <<1, 3, 2>>

\* disconnect() forgetting the last channel
DisconnectChannelsShort == <<1, 2>>

\* for channel in [1, 2, 3]
DisconnectChannels == <<1, 2, 3>>

DisconnectPlan ==
    [i \in 1..Len(DisconnectChannels) |->
        W(SetOutputEnableCmd(PyBool(FALSE), PyInt(DisconnectChannels[i])))]
    \o <<W(SetLocalCmd)>>

Disconnect(failAt) ==
    IF instr = 0
    THEN /\ UNCHANGED <<instr, sess, partial, volt>>
         /\ Finish("disconnect", <<>>, <<>>, "AttributeError")
    ELSE LET ws == Exec(DisconnectPlan, instr, IsOpen(instr), failAt)
             done == AllOk(ws)
         IN /\ UNCHANGED <<instr, partial, volt>>
            /\ sess' = IF done THEN [sess EXCEPT ![instr] = "closed"] ELSE sess
            /\ Finish("disconnect", <<>>,
                      IF done THEN ws \o <<CloseCall(instr)>> ELSE ws,
                      IF done THEN "ok" ELSE "TransportError")

----------------------------------------------------------------------------
(* Operations that issue one transport call *)

\* a method body reaching the transport although self.instr was never set
IssueWithoutHandle(name, args, plan, failAt) ==
    /\ UNCHANGED <<instr, sess, partial>>
    /\ LET cs == Exec(plan, instr, IsOpen(instr), failAt)
       IN Finish(name, args, cs, IF AllOk(cs) THEN "ok" ELSE "TransportError")

\* one method body issuing the calls of `plan`, whatever the transport is
Issue(name, args, plan, failAt) ==
    /\ UNCHANGED <<instr, sess, partial>>
    /\ IF instr = 0
       THEN Finish(name, args, <<>>, "AttributeError")
       ELSE LET cs == Exec(plan, instr, IsOpen(instr), failAt)
            IN Finish(name, args, cs, IF AllOk(cs) THEN "ok" ELSE "TransportError")

OneCall(name, args, plan, failAt) ==
    Issue(name, args, plan, failAt) /\ UNCHANGED volt

Rejected(name, args) ==
    /\ UNCHANGED <<instr, sess, partial, volt>>
    /\ Finish(name, args, <<>>, "ValueError")

SetOutputEnable(enable, channel, failAt) ==
    OneCall("set_output_enable", [enable |-> enable, channel |-> channel],
            <<W(SetOutputEnableCmd(enable, channel))>>, failAt)

SetStandardEventEnableRegister(value, failAt) ==
    IF RegisterInRange(value)
    THEN OneCall("set_standard_event_enable_register", [value |-> value],
                 <<W(EseCmd(value))>>, failAt)
    ELSE Rejected("set_standard_event_enable_register", [value |-> value])

SetStatusByteEnableRegister(value, failAt) ==
    IF RegisterInRange(value)
    THEN OneCall("set_status_byte_enable_register", [value |-> value],
                 <<W(SreCmd(value))>>, failAt)
    ELSE Rejected("set_status_byte_enable_register", [value |-> value])

SetApply(channel, voltage, current, failAt) ==
    OneCall("set_apply", [channel |-> channel, voltage |-> voltage, current |-> current],
            <<W(SetApplyCmd(channel, voltage, current))>>, failAt)

----------------------------------------------------------------------------
(* The other write operations *)

OpChannelArgs == {PyNone, PyInt(2)}
NumberArgs == {PyInt(5), PyStr("MIN")}
PyList(items) == [t |-> "list", items |-> items]
IsList(v) == v.t = "list"                   \* type(v) is list

\* a boolean setter testing the truth value: `if enable`
EnableTokTruthy(enable) ==
    IF enable \in {PyBool(TRUE), PyInt(1), PyStr("ON")} THEN "ON" ELSE "OFF"

\* the ON/OFF token of a boolean setter: `if enable is True`
EnableTok(enable) == IF IsTrue(enable) THEN "ON" ELSE "OFF"

\* the "CHn," prefix segment and the " CHn" suffix of the :OUTP family
ChPrefix(channel) == IF ~IsNone(channel) THEN <<ChTok(channel), ",">> ELSE <<>>
ChSuffix(channel) == IF ~IsNone(channel) THEN <<" ", ChTok(channel)>> ELSE <<>>

\* a source command addressed as CHn, the way the :OUTP family is
SourceMnemonicAsChannel(base, channel) ==
    IF ~IsNone(channel) THEN base \o ChTok(channel) ELSE base

\* cmd = f":SOUR{channel}" + cmd
SourceMnemonic(base, channel) ==
    IF ~IsNone(channel) THEN ":SOUR" \o Fmt(channel) \o base ELSE base

\* set_delay_cycles appending the cycles whenever they are supplied
SetDelayCyclesCmdAnyMode(finite, cycles) ==
    <<":DELAY:CYCLE", " ", Fmt(finite)>>
    \o (IF ~IsNone(cycles) THEN <<",", Fmt(cycles)>> ELSE <<>>)

\* cmd = f":DELAY:CYCLE {finite}", then `if (finite == "N") & (cycles is not None)`
SetDelayCyclesCmd(finite, cycles) ==
    <<":DELAY:CYCLE", " ", Fmt(finite)>>
    \o (IF finite = PyStr("N") /\ ~IsNone(cycles) THEN <<",", Fmt(cycles)>> ELSE <<>>)
SetDelayEndStateCmd(endstate) == <<":DELAY:ENDS", " ", Fmt(endstate)>>
SetDelayGroupsCmd(groups) == <<":DELAY:GROUP", " ", Fmt(groups)>>
SetPowerOnStatusClearBitCmd(value) == <<"*PSC", " ", Fmt(value)>>
RecallSetupCmd(number) == <<"*RCL", " ", Fmt(number)>>
SaveSetupCmd(number) == <<"*SAV", " ", Fmt(number)>>
SetTriggerCouplingChannelsCmd(channels) == <<":INST:COUP", " ", Fmt(channels)>>
SetChannelCmd(channel) == <<":INST", " ", ChTok(channel)>>
InstallOptionsCmd(licence) == <<":LIC:SET", " ", Fmt(licence)>>
ClearOcpLabelCmd(channel) == <<":OUTP:OCP:CLEAR">> \o ChSuffix(channel)
SetOcpEnableCmd(enable, channel) ==
    <<":OUTP:OCP", " ">> \o ChPrefix(channel) \o <<EnableTok(enable)>>
SetOcpValueCmd(value, channel) ==
    <<":OUTP:OCP:VAL", " ">> \o ChPrefix(channel) \o <<Fmt(value)>>
ClearOvpLabelCmd(channel) == <<":OUTP:OVP:CLEAR">> \o ChSuffix(channel)
SetOvpEnableCmd(enable, channel) ==
    <<":OUTP:OVP", " ">> \o ChPrefix(channel) \o <<EnableTok(enable)>>
SetOvpValueCmd(value, channel) ==
    <<":OUTP:OVP:VAL", " ">> \o ChPrefix(channel) \o <<Fmt(value)>>
SetOutputSenseEnableCmd(enable, channel) ==
    <<":OUTP:SENS", " ">> \o ChPrefix(channel) \o <<EnableTok(enable)>>
SetCurrentCmd(current, channel) ==
    <<SourceMnemonic(":CURR", channel), " ", Fmt(current)>>
SetVoltageCmd(voltage, channel) ==
    <<SourceMnemonic(":VOLT", channel), " ", Fmt(voltage)>>
SetKeylockEnableCmd(enable) == <<":SYST:KLOC:STAT", " ", EnableTok(enable)>>

\* a method that issued its command twice
WritePlanTwice(cmd) == <<W(cmd), W(cmd)>>

\* self.instr.write(cmd), once
WritePlan(cmd) == <<W(cmd)>>

WriteOp(name, args, cmd, failAt) == OneCall(name, args, WritePlan(cmd), failAt)

SetDelayCycles(finite, cycles, failAt) ==
    WriteOp("set_delay_cycles", [finite |-> finite, cycles |-> cycles],
            SetDelayCyclesCmd(finite, cycles), failAt)
SetDelayEndState(endstate, failAt) ==
    WriteOp("set_delay_end_state", [endstate |-> endstate],
            SetDelayEndStateCmd(endstate), failAt)
SetDelayGroups(groups, failAt) ==
    WriteOp("set_delay_groups", [groups |-> groups], SetDelayGroupsCmd(groups), failAt)
ClearEventRegisters(failAt) ==
    WriteOp("clear_event_registers", <<>>, <<"*CLS">>, failAt)
SetOpc(failAt) == WriteOp("set_opc", <<>>, <<"*OPC">>, failAt)
SetPowerOnStatusClearBit(value, failAt) ==
    WriteOp("set_power_on_status_clear_bit", [value |-> value],
            SetPowerOnStatusClearBitCmd(value), failAt)
RecallSetup(number, failAt) ==
    WriteOp("recall_setup", [number |-> number], RecallSetupCmd(number), failAt)
Reset(failAt) == WriteOp("reset", <<>>, ResetCmd, failAt)
SaveSetup(number, failAt) ==
    WriteOp("save_setup", [number |-> number], SaveSetupCmd(number), failAt)
Trigger(failAt) == WriteOp("trigger", <<>>, <<"*TRG">>, failAt)
Wait(failAt) == WriteOp("wait", <<>>, <<"*WAI">>, failAt)
InitTrigger(failAt) == WriteOp("init_trigger", <<>>, <<":INIT">>, failAt)

\* a list has no join method: channels.join(",") raises AttributeError
SetTriggerCouplingChannels(channels, failAt) ==
    IF IsList(channels)
    THEN /\ UNCHANGED <<instr, sess, partial, volt>>
         /\ Finish("set_trigger_coupling_channels", [channels |-> channels], <<>>,
                   "AttributeError")
    ELSE WriteOp("set_trigger_coupling_channels", [channels |-> channels],
                 SetTriggerCouplingChannelsCmd(channels), failAt)

SetChannel(channel, failAt) ==
    WriteOp("set_channel", [channel |-> channel], SetChannelCmd(channel), failAt)
InstallOptions(licence, failAt) ==
    WriteOp("install_options", [licence |-> licence], InstallOptionsCmd(licence), failAt)
ClearOcpLabel(channel, failAt) ==
    WriteOp("clear_ocp_label", [channel |-> channel], ClearOcpLabelCmd(channel), failAt)
SetOcpEnable(enable, channel, failAt) ==
    WriteOp("set_ocp_enable", [enable |-> enable, channel |-> channel],
            SetOcpEnableCmd(enable, channel), failAt)
SetOcpValue(value, channel, failAt) ==
    WriteOp("set_ocp_value", [channel |-> channel, value |-> value],
            SetOcpValueCmd(value, channel), failAt)
ClearOvpLabel(channel, failAt) ==
    WriteOp("clear_ovp_label", [channel |-> channel], ClearOvpLabelCmd(channel), failAt)
SetOvpEnable(enable, channel, failAt) ==
    WriteOp("set_ovp_enable", [enable |-> enable, channel |-> channel],
            SetOvpEnableCmd(enable, channel), failAt)
SetOvpValue(value, channel, failAt) ==
    WriteOp("set_ovp_value", [channel |-> channel, value |-> value],
            SetOvpValueCmd(value, channel), failAt)
SetOutputSenseEnable(enable, channel, failAt) ==
    WriteOp("set_output_sense_enable", [enable |-> enable, channel |-> channel],
            SetOutputSenseEnableCmd(enable, channel), failAt)
SetCurrent(current, channel, failAt) ==
    WriteOp("set_current", [channel |-> channel, value |-> current],
            SetCurrentCmd(current, channel), failAt)
SetVoltage(voltage, channel, failAt) ==
    WriteOp("set_voltage", [channel |-> channel, value |-> voltage],
            SetVoltageCmd(voltage, channel), failAt)
SetKeylockEnable(enable, failAt) ==
    WriteOp("set_keylock_enable", [enable |-> enable], SetKeylockEnableCmd(enable), failAt)
SetLocal(failAt) == WriteOp("set_local", <<>>, SetLocalCmd, failAt)
SetRemote(failAt) == WriteOp("set_remote", <<>>, SetRemoteCmd, failAt)

----------------------------------------------------------------------------
(* Replies and their decoding *)

\* A reply is the sequence of its comma-separated fields; a field is the text of
\* an integer, the text of a decimal number, or any other text.
IntTxt(i) == [i |-> i, k |-> "int"]
DecTxt(i, f) == [i |-> i, f |-> f, k |-> "dec"]
Word(w) == [s |-> w, k |-> "word"]

PyFloat(i, f) == [t |-> "float", i |-> i, f |-> f]
PyReply(fields) == [t |-> "reply", fields |-> fields]   \* a str taken from the reply
PyTuple(items) == [t |-> "tuple", items |-> items]

Returns(v) == [result |-> "ok", ret |-> v]
Raises(kind) == [result |-> kind, ret |-> PyNone]

\* float() answering zero for a text that is not a number
ToFloatZeroDefault(x) ==
    IF x.k = "int" THEN Returns(PyFloat(x.i, 0))
    ELSE IF x.k = "dec" THEN Returns(PyFloat(x.i, x.f))
    ELSE Returns(PyFloat(0, 0))

\* float(text) and int(text)
ToFloat(x) ==
    IF x.k = "int" THEN Returns(PyFloat(x.i, 0))
    ELSE IF x.k = "dec" THEN Returns(PyFloat(x.i, x.f))
    ELSE Raises("ValueError")
ToInt(x) == IF x.k = "int" THEN Returns(PyInt(x.i)) ELSE Raises("ValueError")

\* float() dropping the fraction of the reply
DecodeFloatTruncating(reply) ==
    IF Len(reply) = 1 /\ reply[1].k \in {"int", "dec"}
    THEN Returns(PyFloat(reply[1].i, 0))
    ELSE Raises("ValueError")

\* float(self.instr.query(cmd)), int(self.instr.query(cmd)): the whole reply
DecodeFloat(reply) == IF Len(reply) = 1 THEN ToFloat(reply[1]) ELSE Raises("ValueError")
DecodeInt(reply) == IF Len(reply) = 1 THEN ToInt(reply[1]) ELSE Raises("ValueError")
DecodeRaw(reply) == Returns(PyReply(reply))
\* .split(",")
DecodeSplit(reply) == Returns(PyList([i \in DOMAIN reply |-> PyReply(<<reply[i]>>)]))
\* .split(","), a single element unwrapped
DecodeSplitOrSingle(reply) ==
    IF Len(reply) = 1 THEN Returns(PyReply(reply)) ELSE DecodeSplit(reply)

\* a boolean getter comparing with the alarm token
DecodeOnOffAsAlarm(reply) == Returns(PyBool(reply = <<Word("YES")>>))

\* if enable == "ON": True, else: False
DecodeOnOff(reply) == Returns(PyBool(reply = <<Word("ON")>>))
\* if alarm == "YES": True, else: False
DecodeAlarm(reply) == Returns(PyBool(reply = <<Word("YES")>>))

\* resp[0] or (resp[0], int(resp[1]))
DecodeDelayCycles(reply) ==
    IF Len(reply) = 1 THEN Returns(PyReply(reply))
    ELSE LET n == ToInt(reply[2]) IN
         IF n.result = "ok" THEN Returns(PyTuple(<<PyReply(<<reply[1]>>), n.ret>>))
         ELSE n

\* ch, rating, voltage, current = reply.split(","): unpacking another number of
\* fields raises ValueError; then float(voltage), float(current)
DecodeApplyFull(reply) ==
    IF Len(reply) # 4 THEN Raises("ValueError")
    ELSE LET v == ToFloat(reply[3])
             c == ToFloat(reply[4])
         IN IF v.result # "ok" THEN v
            ELSE IF c.result # "ok" THEN c
            ELSE Returns(PyTuple(<<PyReply(<<reply[1]>>), PyReply(<<reply[2]>>),
                                   v.ret, c.ret>>))

BoolReplies == {<<Word("ON")>>, <<Word("OFF")>>, <<Word("NONE")>>}
AlarmReplies == {<<Word("YES")>>, <<Word("NO")>>, <<Word("ON")>>}
NumReplies == {<<IntTxt(5)>>, <<DecTxt(5, 5)>>, <<Word("ERR")>>}
TextReplies == {<<Word("CV")>>}
ListReplies == {<<Word("A")>>, <<Word("A"), Word("B")>>}
MeasureReplies == {<<DecTxt(5, 5)>>, <<DecTxt(5, 5), DecTxt(1, 0), DecTxt(5, 5)>>}
DelayCyclesReplies ==
    {<<Word("I")>>, <<Word("N"), IntTxt(5)>>, <<Word("N"), Word("ERR")>>}
ApplyFullReplies ==
    {<<Word("CH1"), Word("30V/5A"), DecTxt(5, 0), DecTxt(1, 0)>>,
     <<Word("CH1"), Word("30V/5A"), Word("ERR"), DecTxt(1, 0)>>,
     <<Word("CH1"), Word("30V/5A"), DecTxt(5, 0)>>}

FinishQuery(name, args, cs, reply, decoded, warned) ==
    /\ calls' = cs
    /\ lastOp' = [name |-> name, args |-> args, result |-> decoded.result,
                  ret |-> decoded.ret, reply |-> reply, warned |-> warned]
    /\ outOff' = AcceptAll(outOff, cs)

\* self.instr.query(cmd), once, and the decoding of its reply
Ask(name, args, cmd, failAt, reply, decoded, warned) ==
    /\ UNCHANGED <<instr, sess, partial>>
    /\ IF instr = 0
       THEN FinishQuery(name, args, <<>>, <<>>, Raises("AttributeError"), warned)
       ELSE LET cs == Exec(<<Q(cmd)>>, instr, IsOpen(instr), failAt)
            IN IF AllOk(cs)
               THEN FinishQuery(name, args, cs, reply, decoded, warned)
               ELSE FinishQuery(name, args, cs, <<>>, Raises("TransportError"), warned)

QueryOp(name, args, cmd, failAt, reply, decoded, warned) ==
    Ask(name, args, cmd, failAt, reply, decoded, warned) /\ UNCHANGED volt

----------------------------------------------------------------------------
(* The query operations *)

FunctionArgs == {PyNone, PyStr("CURR")}
MeasureArgs == {PyNone, PyStr("ALL")}

\* get_apply treating a function given without a channel like the filtered form
GetApplyCaseNoMisuse(channel, function) ==
    IF ~IsNone(function) THEN "filtered" ELSE "full"

\* the three branches of get_apply
GetApplyCase(channel, function) ==
    IF ~IsNone(channel) /\ ~IsNone(function) THEN "filtered"
    ELSE IF IsNone(channel) /\ ~IsNone(function) THEN "misuse"
    ELSE "full"

GetApplyCmd(channel, function) ==
    <<":APPL", "?">> \o ChSuffix(channel)
    \o (IF GetApplyCase(channel, function) # "full" THEN <<",", Fmt(function)>> ELSE <<>>)

DecodeApply(channel, function, reply) ==
    CASE GetApplyCase(channel, function) = "filtered" -> DecodeFloat(reply)
      [] GetApplyCase(channel, function) = "misuse" -> DecodeRaw(reply)
      [] OTHER -> DecodeApplyFull(reply)

GetApplyReplies(channel, function) ==
    IF IsNone(function) THEN ApplyFullReplies ELSE NumReplies

MeasureCmd(func, channel) ==
    <<IF ~IsNone(func) THEN ":MEAS" \o ":" \o Fmt(func) ELSE ":MEAS", "?">>
    \o ChSuffix(channel)

GetApply(channel, function, failAt, reply) ==
    QueryOp("get_apply", [channel |-> channel, function |-> function],
            GetApplyCmd(channel, function), failAt, reply,
            DecodeApply(channel, function, reply),
            GetApplyCase(channel, function) = "misuse")
GetDelayCycles(failAt, reply) ==
    QueryOp("get_delay_cycles", <<>>, <<":DELAY:CYCLE", "?">>, failAt, reply,
            DecodeDelayCycles(reply), FALSE)
GetDelayEndState(failAt, reply) ==
    QueryOp("get_delay_end_state", <<>>, <<":DELAY:ENDS", "?">>, failAt, reply,
            DecodeRaw(reply), FALSE)
GetDelayGroups(failAt, reply) ==
    QueryOp("get_delay_groups", <<>>, <<":DELAY:GROUP", "?">>, failAt, reply, DecodeInt(reply), FALSE)
GetStandardEventEnableRegister(failAt, reply) ==
    QueryOp("get_standard_event_enable_register", <<>>, <<"*ESE", "?">>, failAt, reply,
            DecodeInt(reply), FALSE)
GetStandardEventRegister(failAt, reply) ==
    QueryOp("get_standard_event_register", <<>>, <<"*ESR", "?">>, failAt, reply,
            DecodeInt(reply), FALSE)
GetId(failAt, reply) ==
    QueryOp("get_id", <<>>, GetIdCmd, failAt, reply, DecodeSplit(reply), FALSE)
GetOpc(failAt, reply) ==
    QueryOp("get_opc", <<>>, <<"*OPC", "?">>, failAt, reply, DecodeInt(reply), FALSE)
GetOptionInstallationStatus(failAt, reply) ==
    QueryOp("get_option_installation_status", <<>>, <<"*OPT">>,
            failAt, reply, DecodeRaw(reply), FALSE)
GetPowerOnStatusClearBit(failAt, reply) ==
    QueryOp("get_power_on_status_clear_bit", <<>>, <<"*PSC", "?">>,
            failAt, reply, DecodeInt(reply), FALSE)
GetStatusByteEnableRegister(failAt, reply) ==
    QueryOp("get_status_byte_enable_register", <<>>, <<"*SRE", "?">>, failAt, reply,
            DecodeInt(reply), FALSE)
GetStatusByteRegister(failAt, reply) ==
    QueryOp("get_status_byte_register", <<>>, <<"*STB", "?">>, failAt, reply, DecodeInt(reply), FALSE)
GetSelfTestResults(failAt, reply) ==
    QueryOp("get_self_test_results", <<>>, <<"*TST", "?">>, failAt, reply,
            DecodeSplit(reply), FALSE)
GetTriggerCouplingChannels(failAt, reply) ==
    QueryOp("get_trigger_coupling_channels", <<>>, <<":INST:COUP", "?">>,
            failAt, reply, DecodeSplitOrSingle(reply), FALSE)
GetChannel(failAt, reply) ==
    QueryOp("get_channel", <<>>, <<":INST:NSEL", "?">>, failAt, reply, DecodeInt(reply), FALSE)
Measure(func, channel, failAt, reply) ==
    QueryOp("measure", [channel |-> channel, func |-> func], MeasureCmd(func, channel),
            failAt, reply, DecodeSplitOrSingle(reply), FALSE)
GetOutputMode(channel, failAt, reply) ==
    QueryOp("get_output_mode", [channel |-> channel], <<":OUTP:MODE", "?">> \o ChSuffix(channel),
            failAt, reply, DecodeRaw(reply), FALSE)
GetOcp(channel, failAt, reply) ==
    QueryOp("get_ocp", [channel |-> channel],
            <<":OUTP:OCP:ALAR", "?">> \o ChSuffix(channel), failAt, reply,
            DecodeAlarm(reply), FALSE)
GetOcpEnable(channel, failAt, reply) ==
    QueryOp("get_ocp_enable", [channel |-> channel], <<":OUTP:OCP", "?">> \o ChSuffix(channel),
            failAt, reply, DecodeOnOff(reply), FALSE)
GetOcpValue(channel, failAt, reply) ==
    QueryOp("get_ocp_value", [channel |-> channel], <<":OUTP:OCP:VAL", "?">> \o ChSuffix(channel),
            failAt, reply, DecodeFloat(reply), FALSE)
GetOvp(channel, failAt, reply) ==
    QueryOp("get_ovp", [channel |-> channel],
            <<":OUTP:OVP:ALAR", "?">> \o ChSuffix(channel), failAt, reply,
            DecodeAlarm(reply), FALSE)
GetOvpEnable(channel, failAt, reply) ==
    QueryOp("get_ovp_enable", [channel |-> channel], <<":OUTP:OVP", "?">> \o ChSuffix(channel),
            failAt, reply, DecodeOnOff(reply), FALSE)
GetOvpValue(channel, failAt, reply) ==
    QueryOp("get_ovp_value", [channel |-> channel], <<":OUTP:OVP:VAL", "?">> \o ChSuffix(channel),
            failAt, reply, DecodeFloat(reply), FALSE)
GetOutputSenseEnable(channel, failAt, reply) ==
    QueryOp("get_output_sense_enable", [channel |-> channel],
            <<":OUTP:SENS", "?">> \o ChSuffix(channel), failAt, reply, DecodeOnOff(reply), FALSE)
GetOutputEnable(channel, failAt, reply) ==
    QueryOp("get_output_enable", [channel |-> channel], <<":OUTP">> \o ChSuffix(channel),
            failAt, reply, DecodeOnOff(reply), FALSE)
GetCurrent(channel, failAt, reply) ==
    QueryOp("get_current", [channel |-> channel], <<SourceMnemonic(":CURR", channel), "?">>,
            failAt, reply, DecodeFloat(reply), FALSE)
GetVoltage(channel, failAt, reply) ==
    QueryOp("get_voltage", [channel |-> channel], <<SourceMnemonic(":VOLT", channel), "?">>,
            failAt, reply, DecodeFloat(reply), FALSE)
GetKeylockEnable(failAt, reply) ==
    QueryOp("get_keylock_enable", <<>>, <<":SYST:KLOC:STAT", "?">>, failAt, reply,
            DecodeOnOff(reply), FALSE)
GetTemperatureTestResult(failAt, reply) ==
    QueryOp("get_temperature_test_result", <<>>, <<":SYST:SELF:TEST:TEMP", "?">>,
            failAt, reply, DecodeFloat(reply), FALSE)

----------------------------------------------------------------------------

Init ==
    /\ instr = 0
    /\ sess = <<>>
    /\ partial = FALSE
    /\ calls = <<>>
    /\ lastOp = [name |-> "init", args |-> <<>>, result |-> "ok"]
    /\ outOff = [ch \in Channels |-> FALSE]
    /\ volt = [ch \in Channels |-> "0"]

Next ==
    \/ \E reset \in BOOLEAN, openOk \in BOOLEAN, failAt \in 0..MaxCalls :
          Connect(reset, openOk, failAt)
    \/ \E failAt \in 0..MaxCalls : Disconnect(failAt)
    \/ \E enable \in EnableArgs, channel \in ChannelArgs, failAt \in 0..1 :
          SetOutputEnable(enable, channel, failAt)
    \/ \E value \in RegisterValues, failAt \in 0..1 :
          SetStandardEventEnableRegister(value, failAt)
    \/ \E value \in RegisterValues, failAt \in 0..1 :
          SetStatusByteEnableRegister(value, failAt)
    \/ \E channel \in ChannelArgs, voltage \in ValueArgs, current \in ValueArgs,
          failAt \in 0..1 :
          SetApply(channel, voltage, current, failAt)

Spec == Init /\ [][Next]_vars

----------------------------------------------------------------------------
(* The operations of a connected driver: every method that builds a command,  *)
(* from the state connect(resource_name, reset=False) leaves.                 *)

\* the methods whose body is only warnings.warn("Not implemented.")
NotImplementedOps ==
    {"set_delay_parameters", "get_delay_parameters", "set_delay_state",
     "get_delay_state", "set_delay_state_pattern", "get_delay_state_pattern",
     "set_delay_stop_condition", "get_delay_stop_condition", "set_delay_time_method",
     "get_delay_time_method", "set_output_range", "set_output_timer",
     "get_output_timer", "set_output_timer_enable", "get_output_timer_enable",
     "set_output_track", "get_output_track", "set_current_step", "get_current_step",
     "set_source_trigger", "get_source_trigger", "clear_ocp_circuit",
     "set_voltage_step", "get_voltage_step", "clear_ovp_circuit",
     "set_voltage_range", "set_beeper", "get_beeper", "set_gpib_config",
     "get_gpib_config", "set_lan_config", "get_lan_config", "set_rs232_config",
     "get_rs232_config", "set_contrast", "get_contrast", "get_error",
     "set_key_keylock", "get_key_keylock", "set_language", "get_language",
     "set_lock", "get_lock", "set_on_off_sync", "get_on_off_sync", "set_otp_enable",
     "get_otp_enable", "set_power_on_config_mode", "get_power_on_config_mode",
     "set_brightness", "get_brightness", "set_screen_saver_enable", "set_track_mode",
     "get_track_mode", "get_scpi_version"}

\* such a method: the warning, then the implicit `return None`
NotImplemented(name) ==
    /\ UNCHANGED <<instr, sess, partial, volt>>
    /\ FinishQuery(name, <<>>, <<>>, <<>>, Returns(PyNone), TRUE)

OpsInit ==
    /\ instr = 1
    /\ sess = <<"open">>
    /\ partial = FALSE
    /\ calls = <<OpenCall(1, TRUE)>> \o Exec(ConnectPlan(FALSE), 1, TRUE, 0)
    /\ lastOp = [name |-> "connect", args |-> [reset |-> FALSE, opened |-> TRUE],
                 result |-> "ok"]
    /\ outOff = [ch \in Channels |-> FALSE]
    /\ volt = [ch \in Channels |-> "0"]

WriteNext ==
    \/ \E enable \in AnyEnableArgs, channel \in ChannelArgs, failAt \in 0..1 :
          SetOutputEnable(enable, channel, failAt)
    \/ \E value \in RegisterValues, failAt \in 0..1 :
          SetStandardEventEnableRegister(value, failAt)
    \/ \E value \in RegisterValues, failAt \in 0..1 :
          SetStatusByteEnableRegister(value, failAt)
    \/ \E channel \in ChannelArgs, voltage \in ValueArgs, current \in ValueArgs,
          failAt \in 0..1 :
          SetApply(channel, voltage, current, failAt)
    \/ \E finite \in {PyStr("N"), PyStr("I")}, cycles \in {PyNone, PyInt(5)},
          failAt \in 0..1 :
          SetDelayCycles(finite, cycles, failAt)
    \/ \E failAt \in 0..1 : SetDelayEndState(PyStr("LAST"), failAt)
    \/ \E failAt \in 0..1 : SetDelayGroups(PyInt(5), failAt)
    \/ \E failAt \in 0..1 : ClearEventRegisters(failAt)
    \/ \E failAt \in 0..1 : SetOpc(failAt)
    \/ \E failAt \in 0..1 : SetPowerOnStatusClearBit(PyInt(1), failAt)
    \/ \E failAt \in 0..1 : RecallSetup(PyInt(5), failAt)
    \/ \E failAt \in 0..1 : Reset(failAt)
    \/ \E failAt \in 0..1 : SaveSetup(PyInt(5), failAt)
    \/ \E failAt \in 0..1 : Trigger(failAt)
    \/ \E failAt \in 0..1 : Wait(failAt)
    \/ \E failAt \in 0..1 : InitTrigger(failAt)
    \/ \E channels \in {PyStr("ALL"), PyStr("NONE"), PyList(<<"CH1", "CH2">>)},
          failAt \in 0..1 :
          SetTriggerCouplingChannels(channels, failAt)
    \/ \E failAt \in 0..1 : SetChannel(PyInt(2), failAt)
    \/ \E failAt \in 0..1 : InstallOptions(PyStr("LICENCE"), failAt)
    \/ \E channel \in OpChannelArgs, failAt \in 0..1 : ClearOcpLabel(channel, failAt)
    \/ \E enable \in AnyEnableArgs, channel \in OpChannelArgs, failAt \in 0..1 :
          SetOcpEnable(enable, channel, failAt)
    \/ \E value \in NumberArgs, channel \in OpChannelArgs, failAt \in 0..1 :
          SetOcpValue(value, channel, failAt)
    \/ \E channel \in OpChannelArgs, failAt \in 0..1 : ClearOvpLabel(channel, failAt)
    \/ \E enable \in AnyEnableArgs, channel \in OpChannelArgs, failAt \in 0..1 :
          SetOvpEnable(enable, channel, failAt)
    \/ \E value \in NumberArgs, channel \in OpChannelArgs, failAt \in 0..1 :
          SetOvpValue(value, channel, failAt)
    \/ \E enable \in AnyEnableArgs, channel \in OpChannelArgs, failAt \in 0..1 :
          SetOutputSenseEnable(enable, channel, failAt)
    \/ \E current \in NumberArgs, channel \in ChannelArgs, failAt \in 0..1 :
          SetCurrent(current, channel, failAt)
    \/ \E voltage \in NumberArgs, channel \in ChannelArgs, failAt \in 0..1 :
          SetVoltage(voltage, channel, failAt)
    \/ \E enable \in AnyEnableArgs, failAt \in 0..1 : SetKeylockEnable(enable, failAt)
    \/ \E failAt \in 0..1 : SetLocal(failAt)
    \/ \E failAt \in 0..1 : SetRemote(failAt)

QueryNext ==
    \/ \E channel \in OpChannelArgs, function \in FunctionArgs, failAt \in 0..1 :
          \E reply \in GetApplyReplies(channel, function) :
             GetApply(channel, function, failAt, reply)
    \/ \E failAt \in 0..1, reply \in DelayCyclesReplies : GetDelayCycles(failAt, reply)
    \/ \E failAt \in 0..1, reply \in TextReplies : GetDelayEndState(failAt, reply)
    \/ \E failAt \in 0..1, reply \in NumReplies : GetDelayGroups(failAt, reply)
    \/ \E failAt \in 0..1, reply \in NumReplies :
          GetStandardEventEnableRegister(failAt, reply)
    \/ \E failAt \in 0..1, reply \in NumReplies : GetStandardEventRegister(failAt, reply)
    \/ \E failAt \in 0..1, reply \in ListReplies : GetId(failAt, reply)
    \/ \E failAt \in 0..1, reply \in NumReplies : GetOpc(failAt, reply)
    \/ \E failAt \in 0..1, reply \in TextReplies :
          GetOptionInstallationStatus(failAt, reply)
    \/ \E failAt \in 0..1, reply \in NumReplies : GetPowerOnStatusClearBit(failAt, reply)
    \/ \E failAt \in 0..1, reply \in NumReplies :
          GetStatusByteEnableRegister(failAt, reply)
    \/ \E failAt \in 0..1, reply \in NumReplies : GetStatusByteRegister(failAt, reply)
    \/ \E failAt \in 0..1, reply \in ListReplies : GetSelfTestResults(failAt, reply)
    \/ \E failAt \in 0..1, reply \in ListReplies :
          GetTriggerCouplingChannels(failAt, reply)
    \/ \E failAt \in 0..1, reply \in NumReplies : GetChannel(failAt, reply)
    \/ \E func \in MeasureArgs, channel \in OpChannelArgs, failAt \in 0..1,
          reply \in MeasureReplies :
          Measure(func, channel, failAt, reply)
    \/ \E channel \in OpChannelArgs, failAt \in 0..1, reply \in TextReplies :
          GetOutputMode(channel, failAt, reply)
    \/ \E channel \in OpChannelArgs, failAt \in 0..1, reply \in AlarmReplies :
          GetOcp(channel, failAt, reply)
    \/ \E channel \in OpChannelArgs, failAt \in 0..1, reply \in BoolReplies :
          GetOcpEnable(channel, failAt, reply)
    \/ \E channel \in OpChannelArgs, failAt \in 0..1, reply \in NumReplies :
          GetOcpValue(channel, failAt, reply)
    \/ \E channel \in OpChannelArgs, failAt \in 0..1, reply \in AlarmReplies :
          GetOvp(channel, failAt, reply)
    \/ \E channel \in OpChannelArgs, failAt \in 0..1, reply \in BoolReplies :
          GetOvpEnable(channel, failAt, reply)
    \/ \E channel \in OpChannelArgs, failAt \in 0..1, reply \in NumReplies :
          GetOvpValue(channel, failAt, reply)
    \/ \E channel \in OpChannelArgs, failAt \in 0..1, reply \in BoolReplies :
          GetOutputSenseEnable(channel, failAt, reply)
    \/ \E channel \in OpChannelArgs, failAt \in 0..1, reply \in BoolReplies :
          GetOutputEnable(channel, failAt, reply)
    \/ \E channel \in ChannelArgs, failAt \in 0..1, reply \in NumReplies :
          GetCurrent(channel, failAt, reply)
    \/ \E channel \in ChannelArgs, failAt \in 0..1, reply \in NumReplies :
          GetVoltage(channel, failAt, reply)
    \/ \E failAt \in 0..1, reply \in BoolReplies : GetKeylockEnable(failAt, reply)
    \/ \E failAt \in 0..1, reply \in NumReplies : GetTemperatureTestResult(failAt, reply)

OpsNext ==
    \/ WriteNext
    \/ QueryNext
    \/ \E name \in NotImplementedOps : NotImplemented(name)

OpsSpec == OpsInit /\ [][OpsNext]_vars

----------------------------------------------------------------------------
(* A driver from its construction: connect, disconnect and the operations of *)
(* Spec in any state, and every other method while the driver has no session *)
(* handle.                                                                   *)

FreshNext ==
    \/ Next
    \/ instr = 0 /\ OpsNext

FreshSpec == Init /\ [][FreshNext]_vars

----------------------------------------------------------------------------
(* set_voltage and get_voltage of a connected driver whose transport is a    *)
(* loopback: it stores, per channel, the value text written with             *)
(* ":SOURn:VOLT <text>" and answers ":SOURn:VOLT?" with the stored text.     *)

VoltArgs == {PyInt(v) : v \in 0..MaxVolt} \cup {PyFloat(v, 5) : v \in 0..MaxVolt}

\* the reply fields whose text is `text`: what float() will be given
TextFields(text) ==
    {x \in {IntTxt(i) : i \in 0..MaxVolt} \cup {DecTxt(i, f) : i \in 0..MaxVolt, f \in 0..9} :
        text = (IF x.k = "int" THEN ToString(x.i)
                ELSE ToString(x.i) \o "." \o ToString(x.f))}

\* the loopback after the calls cs: an accepted ":SOURn:VOLT <text>" is stored
LoopbackStore(store, cs) ==
    [ch \in Channels |->
        IF /\ Len(cs) = 1 /\ cs[1].ok /\ cs[1].kind = "write"
           /\ Len(cs[1].cmd) = 3
           /\ cs[1].cmd[1] = ":SOUR" \o ToString(ch) \o ":VOLT"
           /\ cs[1].cmd[2] = " "
        THEN cs[1].cmd[3]
        ELSE store[ch]]

\* the loopback's reply to the query cmd
LoopbackReply(store, cmd) ==
    IF \E ch \in Channels : cmd = <<":SOUR" \o ToString(ch) \o ":VOLT", "?">>
    THEN LET ch == CHOOSE c \in Channels : cmd = <<":SOUR" \o ToString(c) \o ":VOLT", "?">>
             fields == TextFields(store[ch])
         IN IF fields = {} THEN <<Word(store[ch])>>
            ELSE <<CHOOSE x \in fields : TRUE>>
    ELSE <<Word("ERR")>>

LoopSetVoltage(voltage, channel, failAt) ==
    /\ Issue("set_voltage", [channel |-> channel, value |-> voltage],
             WritePlan(SetVoltageCmd(voltage, channel)), failAt)
    /\ volt' = LoopbackStore(volt, calls')

LoopGetVoltage(channel, failAt) ==
    LET cmd == <<SourceMnemonic(":VOLT", channel), "?">>
        reply == LoopbackReply(volt, cmd)
    IN /\ Ask("get_voltage", [channel |-> channel], cmd, failAt, reply,
              DecodeFloat(reply), FALSE)
       /\ UNCHANGED volt

LoopNext ==
    \/ \E voltage \in VoltArgs, channel \in Channels, failAt \in 0..1 :
          LoopSetVoltage(voltage, PyInt(channel), failAt)
    \/ \E channel \in Channels, failAt \in 0..1 : LoopGetVoltage(PyInt(channel), failAt)

LoopSpec == OpsInit /\ [][LoopNext]_vars

----------------------------------------------------------------------------
(* Properties *)

IsWrite(c) == c.kind = "write"
IsDisableFor(cmd, ch) == NoSpaces(cmd) = <<":OUTP", "CH" \o ToString(ch), ",", "OFF">>
LastCall == calls[Len(calls)]
OpenFailed == lastOp.name = "connect" /\ ~lastOp.args.opened
Opened == lastOp.name = "connect" /\ lastOp.args.opened
IsRegisterSetter(name) ==
    name \in {"set_standard_event_enable_register", "set_status_byte_enable_register"}

\* C1: a disconnect() on a driver that holds a session, none of whose transport
\* calls fails, issues exactly: a disable write for channel 1, for channel 2,
\* for channel 3, one :SYST:LOC write, then the close, and nothing else.
C1_DisconnectSequence ==
    (lastOp.name = "disconnect" /\ instr # 0 /\ AllOk(calls)) =>
        /\ Len(calls) = 5
        /\ \A i \in 1..3 : IsWrite(calls[i]) /\ IsDisableFor(calls[i].cmd, i)
        /\ IsWrite(calls[4]) /\ calls[4].cmd = <<":SYST:LOC">>
        /\ calls[5].kind = "close"
        /\ \A i \in 1..5 : calls[i].sess = instr
        /\ sess[instr] = "closed"

C1_Witness ==
    lastOp.name = "disconnect" /\ lastOp.result = "ok" /\ Len(calls) = 5

\* C2 (as claimed): when a disable write of disconnect() fails, a disable is
\* still attempted for every channel, the close still runs and the session
\* ends closed.
C2_BestEffortDisconnect ==
    (/\ lastOp.name = "disconnect"
     /\ \E k \in 1..3 : k \in DOMAIN calls /\ IsWrite(calls[k]) /\ calls[k].live
                        /\ ~calls[k].ok)
    =>  /\ \A ch \in 1..3 : \E i \in DOMAIN calls : IsDisableFor(calls[i].cmd, ch)
        /\ \E i \in DOMAIN calls : calls[i].kind = "close"
        /\ sess[instr] = "closed"

\* C3: whenever the driver's session has been closed by disconnect(), every
\* channel has had an output-disable accepted by the transport after the last
\* accepted output-enable.
C3_ClosedMeansOutputsOff ==
    (instr # 0 /\ sess[instr] = "closed") => \A ch \in 1..3 : outOff[ch]

C3_Witness ==
    /\ instr # 0 /\ sess[instr] = "closed"
    /\ lastOp.name = "set_output_enable" /\ IsTrue(lastOp.args.enable)
    /\ calls # <<>>

ExpectedConnect(reset) ==
    <<[cmd |-> <<>>, kind |-> "open"]>>
    \o (IF reset THEN <<[cmd |-> <<"*RST">>, kind |-> "write"]>> ELSE <<>>)
    \o <<[cmd |-> <<":SYST:REM">>, kind |-> "write"],
         [cmd |-> <<"*IDN", "?">>, kind |-> "query"]>>

\* C4: the transport calls of a connect() whose open succeeds are, in order:
\* the open, *RST if and only if reset is true, :SYST:REM, and the *IDN? query
\* last; a call that raises ends the sequence there, and a connect() that
\* returns has issued all of them, with exactly one query.
C4_ConnectSequence ==
    Opened =>
        LET exp == ExpectedConnect(lastOp.args.reset) IN
        /\ Len(calls) <= Len(exp)
        /\ \A i \in DOMAIN calls :
              /\ calls[i].kind = exp[i].kind
              /\ calls[i].cmd = exp[i].cmd
              /\ calls[i].sess = instr
        /\ \A i \in DOMAIN calls : i < Len(calls) => calls[i].ok
        /\ AllOk(calls) =>
              /\ Len(calls) = Len(exp)
              /\ Cardinality({i \in DOMAIN calls : calls[i].kind = "query"}) = 1
              /\ LastCall.kind = "query"

C4_Witness ==
    Opened /\ lastOp.result = "ok" /\ ~lastOp.args.reset /\ Len(calls) = 3

\* C5 (as claimed): when the open of connect() fails the error reaches the
\* caller, nothing is written, and the driver holds no session handle.
C5_FailedOpenNoHandle ==
    OpenFailed =>
        /\ lastOp.result = "TransportError"
        /\ Len(calls) = 1 /\ calls[1].kind = "open"
        /\ instr = 0

\* C5 (amended): when the open of connect() fails the error reaches the
\* caller, nothing is written, no session is added, and the driver's handle is
\* what it was before the call: none on a fresh driver, otherwise the handle of
\* the earlier session.
C5_FailedOpenKeepsHandle ==
    [][(lastOp'.name = "connect" /\ ~lastOp'.args.opened) =>
          /\ lastOp'.result = "TransportError"
          /\ Len(calls') = 1 /\ calls'[1].kind = "open" /\ ~calls'[1].ok
          /\ instr' = instr
          /\ sess' = sess]_vars

C5_Witness ==
    OpenFailed /\ instr # 0 /\ sess[instr] = "closed"

\* C6: when the reset write or the remote-mode write of connect() fails, the
\* caller gets the error and the driver holds the session that connect()
\* opened, still open; an operation after it issues its command on that
\* session, open at the time of the call.
C6_FailedSetupKeepsSession ==
    /\ (Opened /\ IsWrite(LastCall) /\ ~LastCall.ok) =>
          /\ lastOp.result = "TransportError"
          /\ instr = calls[1].sess
          /\ sess[instr] = "open"
          /\ partial
    /\ (partial /\ sess[instr] = "open" /\ lastOp.name # "connect" /\ calls # <<>>) =>
          /\ calls[1].sess = instr
          /\ calls[1].live

C6_Witness ==
    /\ partial /\ lastOp.name = "set_apply"
    /\ calls # <<>> /\ calls[1].ok /\ calls[1].sess = instr

\* C7 (as claimed): at most one session of the driver is open in every state.
C7_AtMostOneOpenSession == Cardinality(OpenSessions) <= 1

\* C8 (as claimed): no operation issues a write or a query on a session that
\* disconnect() has closed.
C8_NoCallOnClosedSession ==
    \A i \in DOMAIN calls : calls[i].kind \in {"write", "query"} => calls[i].live

\* C9: the two register setters raise ValueError and issue no transport call
\* for a value below 0 or above 255; for a value in 0..255, on a driver that
\* holds a session, they issue exactly one call, the write "*ESE <value>"
\* respectively "*SRE <value>".
C9_RegisterBounds ==
    IsRegisterSetter(lastOp.name) =>
        LET v == lastOp.args.value
            mnemonic == IF lastOp.name = "set_standard_event_enable_register"
                        THEN "*ESE" ELSE "*SRE"
        IN IF v < 0 \/ v > 255
           THEN lastOp.result = "ValueError" /\ calls = <<>>
           ELSE /\ lastOp.result # "ValueError"
                /\ instr # 0 =>
                      /\ Len(calls) = 1
                      /\ IsWrite(calls[1])
                      /\ calls[1].cmd = <<mnemonic, " ", ToString(v)>>

C9_Witness ==
    /\ lastOp.name = "set_status_byte_enable_register" /\ lastOp.args.value = 255
    /\ Len(calls) = 1 /\ calls[1].ok

CurrentSegmentAppended(cmd, current) ==
    Len(cmd) >= 2 /\ cmd[Len(cmd) - 1] = "," /\ cmd[Len(cmd)] = Fmt(current)

\* C10 (as claimed): set_apply appends the current segment ",<current>" if and
\* only if both a voltage and a current were supplied.
C10_CurrentSegmentIffBoth ==
    (lastOp.name = "set_apply" /\ calls # <<>>) =>
        (CurrentSegmentAppended(calls[1].cmd, lastOp.args.current)
            <=> (~IsNone(lastOp.args.voltage) /\ ~IsNone(lastOp.args.current)))

----------------------------------------------------------------------------
(* Command shape *)

IsQuery(c) == c.kind = "query"
IsSeparator(tok) == tok \in {" ", ","}

\* mnemonic, one space, parameters separated by single commas; or a bare mnemonic
WellFormedWrite(cmd) ==
    /\ Len(cmd) >= 1
    /\ ~IsSeparator(cmd[1])
    /\ Len(cmd) > 1 =>
          /\ Len(cmd) >= 3
          /\ Len(cmd) % 2 = 1
          /\ cmd[2] = " "
          /\ \A i \in 3..Len(cmd) :
                IF i % 2 = 1 THEN ~IsSeparator(cmd[i]) /\ cmd[i] # ""
                ELSE cmd[i] = ","

\* C11 (as claimed): set_apply called with a current and no voltage, on a driver
\* that holds a session, fails before any transport call: nothing is written.
C11_CurrentOnlyRejected ==
    (/\ lastOp.name = "set_apply"
     /\ instr # 0
     /\ IsNone(lastOp.args.voltage)
     /\ ~IsNone(lastOp.args.current))
        => (lastOp.result # "ok" /\ calls = <<>>)

\* C12 (as claimed): every command the driver writes is a mnemonic, exactly one
\* space, then one or more non-empty parameters separated by single commas, with
\* no leading, doubled or trailing separator; or a bare mnemonic.
C12_WriteCommandsWellFormed ==
    \A i \in DOMAIN calls : IsWrite(calls[i]) => WellFormedWrite(calls[i].cmd)

\* C13 (as claimed): every command passed to query() has its mnemonic suffixed
\* with "?", and no command passed to write() carries a "?".
C13_QueryFormIffQueried ==
    \A i \in DOMAIN calls :
        /\ IsQuery(calls[i]) => (Len(calls[i].cmd) >= 2 /\ calls[i].cmd[2] = "?")
        /\ IsWrite(calls[i]) => (\A j \in DOMAIN calls[i].cmd : calls[i].cmd[j] # "?")

----------------------------------------------------------------------------
(* Channel addressing, token rendering, calls per operation *)

ChannelTokens == {"CH" \o ToString(ch) : ch \in Channels}
SourcePrefixed(base) == {":SOUR" \o ToString(ch) \o base : ch \in Channels}
HasToken(cmd, toks) == \E j \in DOMAIN cmd : cmd[j] \in toks

\* the scoped form ":SOURn<base> <value>", or "<base> <value>" with no channel
ScopedWrite(base, cmd, args) ==
    /\ cmd = <<(IF IsNone(args.channel) THEN base
                ELSE ":SOUR" \o ToString(args.channel.i) \o base),
               " ", Fmt(args.value)>>
    /\ ~HasToken(cmd, ChannelTokens)

\* the channel as one "CHn" token after the mnemonic, or no channel token at all
TokenAddressedWrite(cmd, args) ==
    /\ cmd[1] = ":OUTP"
    /\ ~HasToken(cmd, SourcePrefixed("") \cup SourcePrefixed(":OUTP"))
    /\ IF IsNone(args.channel)
       THEN ~HasToken(cmd, ChannelTokens)
       ELSE /\ HasToken(cmd, {"CH" \o ToString(args.channel.i)})
            /\ ~HasToken(cmd, ChannelTokens \ {"CH" \o ToString(args.channel.i)})

\* C14: set_voltage and set_current address a channel n as the scope prefix
\* ":SOURn" of the mnemonic and never as a "CHn" token, set_output_enable
\* addresses it as a "CHn" token and never as ":SOURn", and with the channel
\* omitted no channel token of either kind is in the command.
C14_AddressingConventions ==
    calls # <<>> =>
        /\ lastOp.name = "set_voltage" => ScopedWrite(":VOLT", calls[1].cmd, lastOp.args)
        /\ lastOp.name = "set_current" => ScopedWrite(":CURR", calls[1].cmd, lastOp.args)
        /\ lastOp.name = "set_output_enable" =>
              TokenAddressedWrite(calls[1].cmd, lastOp.args)

C14_Witness ==
    /\ lastOp.name = "set_voltage"
    /\ lastOp.args.channel = PyInt(2)
    /\ lastOp.result = "ok"
    /\ calls = <<[sess |-> 1, cmd |-> <<":SOUR2:VOLT", " ", "5">>, kind |-> "write",
                  ok |-> TRUE, live |-> TRUE]>>

\* what Python renders for a value that is not a protocol token
PlaceholderTokens == {Fmt(PyNone), Fmt(PyBool(TRUE)), Fmt(PyBool(FALSE))}

\* C15 (as claimed): every command consists only of uppercase tokens; an omitted
\* optional parameter never appears in a command as a rendered placeholder.
C15_NoPlaceholderToken ==
    \A i \in DOMAIN calls : ~HasToken(calls[i].cmd, PlaceholderTokens)

\* the operations that build one command
IsCommandOperation ==
    lastOp.name \notin {"init", "connect", "disconnect"} \cup NotImplementedOps

\* C16 (as claimed): an operation issues one transport call when it succeeds,
\* and the transport calls number the successful operations: an operation that
\* does not succeed adds no call.
C16_CallsEqualSuccesses ==
    IsCommandOperation => Len(calls) = (IF lastOp.result = "ok" THEN 1 ELSE 0)

\* C16 (amended): every operation other than connect and disconnect issues at
\* most one transport call, and exactly one, which the transport completed,
\* when it succeeds; `calls` holds the calls of one operation, so over a
\* sequence the calls number at least the successful operations and at most
\* all the operations.
C16_OneCallPerOperation ==
    IsCommandOperation =>
        /\ Len(calls) <= 1
        /\ lastOp.result = "ok" => (Len(calls) = 1 /\ AllOk(calls))

C16_Witness ==
    /\ lastOp.name = "measure"
    /\ lastOp.result = "ok"
    /\ Len(calls) = 1
    /\ IsQuery(calls[1])

----------------------------------------------------------------------------
(* Decoding of replies *)

BoolGetters ==
    {"get_output_enable", "get_ocp_enable", "get_ovp_enable",
     "get_output_sense_enable", "get_keylock_enable"}
AlarmGetters == {"get_ocp", "get_ovp"}

\* the command the setter paired with a boolean getter writes for b
PairedSetterCmd(getter, b) ==
    CASE getter = "get_output_enable" -> SetOutputEnableCmd(PyBool(b), PyNone)
      [] getter = "get_ocp_enable" -> SetOcpEnableCmd(PyBool(b), PyNone)
      [] getter = "get_ovp_enable" -> SetOvpEnableCmd(PyBool(b), PyNone)
      [] getter = "get_output_sense_enable" -> SetOutputSenseEnableCmd(PyBool(b), PyNone)
      [] getter = "get_keylock_enable" -> SetKeylockEnableCmd(PyBool(b))

\* the token the setter writes for b, as the instrument's reply
WrittenToken(getter, b) ==
    LET cmd == PairedSetterCmd(getter, b) IN <<Word(cmd[Len(cmd)])>>

\* the query of the last operation reached the instrument and was answered
Answered == Len(calls) = 1 /\ IsQuery(calls[1]) /\ AllOk(calls)

\* C17: for each boolean pair (output enable, OCP enable, OVP enable, output
\* sense enable, keylock enable) and each b, the token the setter writes for b,
\* returned as the reply to the matching getter, decodes back to b.
C17_BooleanRoundTrip ==
    \A b \in BOOLEAN :
        (/\ lastOp.name \in BoolGetters
         /\ Answered
         /\ lastOp.reply = WrittenToken(lastOp.name, b))
            => (lastOp.result = "ok" /\ lastOp.ret = PyBool(b))

C17_Witness ==
    /\ lastOp.name = "get_ocp_enable"
    /\ Answered
    /\ lastOp.reply = WrittenToken("get_ocp_enable", TRUE)
    /\ lastOp.reply = <<Word("ON")>>
    /\ lastOp.ret = PyBool(TRUE)

KnownTokens(getter) ==
    IF getter \in AlarmGetters THEN {<<Word("YES")>>, <<Word("NO")>>}
    ELSE {<<Word("ON")>>, <<Word("OFF")>>}

\* C18 (as claimed): a boolean or alarm getter whose reply is a token outside
\* its known set fails with a decode error and never returns a value.
C18_UnknownTokenRejected ==
    (/\ lastOp.name \in BoolGetters \cup AlarmGetters
     /\ Answered
     /\ lastOp.reply \notin KnownTokens(lastOp.name))
        => lastOp.result # "ok"

\* C19: get_apply with a function and no channel issues exactly one query, the
\* function appended to ":APPL?" with no channel token, warns, and when the
\* query is answered returns the raw reply instead of failing.
C19_FunctionWithoutChannel ==
    (/\ lastOp.name = "get_apply"
     /\ IsNone(lastOp.args.channel)
     /\ ~IsNone(lastOp.args.function))
        => /\ Len(calls) = 1
           /\ IsQuery(calls[1])
           /\ calls[1].cmd = <<":APPL", "?", ",", Fmt(lastOp.args.function)>>
           /\ lastOp.warned
           /\ AllOk(calls) => (lastOp.result = "ok" /\ lastOp.ret = PyReply(lastOp.reply))

C19_Witness ==
    /\ lastOp.name = "get_apply"
    /\ lastOp.args = [channel |-> PyNone, function |-> PyStr("CURR")]
    /\ Answered
    /\ calls[1].cmd = <<":APPL", "?", ",", "CURR">>
    /\ lastOp.warned
    /\ lastOp.ret = PyReply(<<Word("ERR")>>)

\* the error kind of float() on a text that is not a number
CoercionErrorKind == ToFloat(Word("ERR")).result

\* C20 (as claimed): full-form get_apply (function omitted) whose reply does not
\* have exactly four fields fails with an error of another kind than the one a
\* non-numeric voltage or current field raises.
C20_FieldCountErrorDistinct ==
    (/\ lastOp.name = "get_apply"
     /\ IsNone(lastOp.args.function)
     /\ Answered
     /\ Len(lastOp.reply) # 4)
        => lastOp.result \notin {"ok", CoercionErrorKind}

----------------------------------------------------------------------------
(* Round trip through the loopback *)

\* Python's ==  between the number passed in and the float returned
NumEq(a, b) ==
    \/ a = b
    \/ a.t = "int" /\ b.t = "float" /\ b.i = a.i /\ b.f = 0

C21_Step ==
    /\ (lastOp'.name = "set_voltage" /\ lastOp'.result = "ok") =>
          \A m \in Channels \ {lastOp'.args.channel.i} : volt'[m] = volt[m]
    /\ (/\ lastOp.name = "set_voltage" /\ lastOp.result = "ok"
        /\ lastOp'.name = "get_voltage"
        /\ lastOp'.args.channel = lastOp.args.channel
        /\ AllOk(calls') /\ calls' # <<>>)
          => (lastOp'.result = "ok" /\ NumEq(lastOp.args.value, lastOp'.ret))

\* C21: through a transport that stores per-channel settings, set_voltage(v,
\* channel=n) followed by get_voltage(channel=n) returns v, and the set leaves
\* the stored voltage of every other channel unchanged.
C21_VoltageRoundTrip == [][C21_Step]_vars

C21_Witness ==
    /\ lastOp.name = "get_voltage"
    /\ lastOp.args.channel = PyInt(2)
    /\ lastOp.result = "ok"
    /\ lastOp.ret = PyFloat(1, 5)
    /\ volt = [ch \in Channels |-> IF ch = 2 THEN "1.5" ELSE "0"]

----------------------------------------------------------------------------
(* Errors of the transport and of decoding *)

\* C22: a transport error raised by write() or query() inside an operation
\* reaches the caller as it is and nothing is retried: the call that raised is
\* the last transport call of the operation.
C22_NoRetryAfterFailure ==
    \A i \in DOMAIN calls :
        ((IsWrite(calls[i]) \/ IsQuery(calls[i])) /\ ~calls[i].ok)
            => (i = Len(calls) /\ lastOp.result = "TransportError")

C22_Witness ==
    /\ lastOp.name = "disconnect"
    /\ lastOp.result = "TransportError"
    /\ Len(calls) = 2
    /\ calls[1].ok /\ IsWrite(calls[2]) /\ ~calls[2].ok

NumericGetters ==
    {"get_voltage", "get_current", "get_ocp_value", "get_ovp_value",
     "get_standard_event_enable_register", "get_standard_event_register",
     "get_status_byte_enable_register", "get_status_byte_register",
     "get_delay_groups", "get_channel"}

WellFormedNumber(reply) == Len(reply) = 1 /\ reply[1].k \in {"int", "dec"}

\* C23: a numeric getter whose query is answered with a reply that is not a
\* well-formed number fails with a decode error and returns nothing, neither
\* zero nor any other default.
C23_MalformedNumberRejected ==
    (/\ lastOp.name \in NumericGetters
     /\ Answered
     /\ ~WellFormedNumber(lastOp.reply))
        => (lastOp.result = "ValueError" /\ lastOp.ret = PyNone)

C23_Witness ==
    /\ lastOp.name = "get_voltage"
    /\ Answered
    /\ lastOp.reply = <<Word("ERR")>>
    /\ lastOp.result = "ValueError"

\* C24 (as claimed): an unimplemented operation issues no transport call and
\* hands the caller an explicit "not supported" result, it does not complete
\* as a no-op.
C24_NotSupportedResult ==
    lastOp.name \in NotImplementedOps
        => (calls = <<>> /\ (lastOp.result # "ok" \/ lastOp.ret # PyNone))

----------------------------------------------------------------------------
(* Results and commands of single operations *)

AllNumeric(reply) == \A i \in DOMAIN reply : reply[i].k \in {"int", "dec"}

\* C25 (as claimed): measure returns the measurement as a float when the reply
\* has one field and as a list of floats when it has several.
C25_MeasureReturnsFloats ==
    (/\ lastOp.name = "measure"
     /\ Answered
     /\ AllNumeric(lastOp.reply))
        => /\ lastOp.result = "ok"
           /\ lastOp.ret = (IF Len(lastOp.reply) = 1
                            THEN ToFloat(lastOp.reply[1]).ret
                            ELSE PyList([i \in DOMAIN lastOp.reply |->
                                            ToFloat(lastOp.reply[i]).ret]))

\* the names of a list joined by commas, as command tokens
JoinedByCommas(items) ==
    [i \in 1..(2 * Len(items) - 1) |-> IF i % 2 = 1 THEN items[(i + 1) \div 2] ELSE ","]

\* C26 (as claimed): set_trigger_coupling_channels issues exactly one write,
\* ":INST:COUP " followed by the names of the list joined by commas, or by the
\* string ALL or NONE it was given.
C26_CouplingChannelsWritten ==
    (lastOp.name = "set_trigger_coupling_channels" /\ instr # 0)
        => /\ Len(calls) = 1
           /\ IsWrite(calls[1])
           /\ calls[1].cmd =
                 <<":INST:COUP", " ">>
                 \o (IF IsList(lastOp.args.channels)
                     THEN JoinedByCommas(lastOp.args.channels.items)
                     ELSE <<lastOp.args.channels.s>>)

\* C27: set_delay_cycles writes ":DELAY:CYCLE <finite>" and appends ",<cycles>"
\* if and only if finite is "N" and cycles was supplied; with finite "I" the
\* cycles are ignored.
C27_DelayCyclesCommand ==
    (lastOp.name = "set_delay_cycles" /\ calls # <<>>) =>
        LET cmd == calls[1].cmd
            appended == Len(cmd) = 5 /\ cmd[4] = "," /\ cmd[5] = Fmt(lastOp.args.cycles)
        IN /\ Len(calls) = 1 /\ IsWrite(calls[1])
           /\ SubSeq(cmd, 1, 3) = <<":DELAY:CYCLE", " ", Fmt(lastOp.args.finite)>>
           /\ Len(cmd) \in {3, 5}
           /\ appended <=> (lastOp.args.finite = PyStr("N") /\ ~IsNone(lastOp.args.cycles))
           /\ lastOp.args.finite = PyStr("I") => Len(cmd) = 3

C27_Witness ==
    /\ lastOp.name = "set_delay_cycles"
    /\ lastOp.args.finite = PyStr("I")
    /\ lastOp.args.cycles = PyInt(5)
    /\ lastOp.result = "ok"
    /\ calls[1].cmd = <<":DELAY:CYCLE", " ", "I">>

BoolSetters ==
    {"set_output_enable", "set_ocp_enable", "set_ovp_enable",
     "set_output_sense_enable", "set_keylock_enable"}

\* C28: a boolean setter writes "ON" as its state token only when enable is
\* the boolean True and "OFF" for any other value (False, 1, "ON", None); it
\* writes no other state token.
C28_OnOnlyForTrue ==
    (lastOp.name \in BoolSetters /\ calls # <<>>) =>
        LET cmd == calls[1].cmd IN
        /\ IsWrite(calls[1])
        /\ cmd[Len(cmd)] = (IF lastOp.args.enable = PyBool(TRUE) THEN "ON" ELSE "OFF")
        /\ \A j \in 1..(Len(cmd) - 1) : cmd[j] \notin {"ON", "OFF"}

C28_Witness ==
    /\ lastOp.name = "set_ocp_enable"
    /\ lastOp.args.enable = PyInt(1)
    /\ lastOp.result = "ok"
    /\ calls[1].cmd = <<":OUTP:OCP", " ", "OFF">>

----------------------------------------------------------------------------
(* A driver that never connected *)

\* no write, query or close among the calls cs
NoSessionCall(cs) == \A i \in DOMAIN cs : cs[i].kind \notin {"write", "query", "close"}

\* states in which it is certain that no connect() has succeeded so far
NoConnectSucceeded ==
    \/ sess = <<>>
    \/ Len(sess) = 1 /\ lastOp.name = "connect" /\ lastOp.result # "ok"

\* C29 (as claimed): on a driver on which connect() has never succeeded, every
\* operation (including disconnect) fails without any transport write, query
\* or close and leaves the driver without a session handle.
C29_NeverConnectedFails ==
    [][(NoConnectSucceeded /\ lastOp'.name # "connect")
         => (lastOp'.result # "ok" /\ NoSessionCall(calls') /\ instr' = 0)]_vars

\* C29 (amended): while no connect() has opened a session, every operation
\* issues no transport write, query or close and leaves the driver without a
\* session handle; it fails, unless it is one of the stub operations, which
\* complete with a warning.
C29_NoSessionNoCall ==
    (sess = <<>> /\ lastOp.name # "init") =>
        /\ instr = 0
        /\ NoSessionCall(calls)
        /\ IF lastOp.name \in NotImplementedOps
           THEN lastOp.result = "ok" /\ lastOp.warned
           ELSE lastOp.result # "ok"

C29_Witness ==
    /\ sess = <<>>
    /\ instr = 0
    /\ lastOp.name = "disconnect"
    /\ lastOp.result = "AttributeError"
    /\ calls = <<>>

----------------------------------------------------------------------------
(* The disable commands of disconnect() *)

\* what follows the mnemonic of a command: separator, channel, comma, state
ChannelForm(cmd) == Tail(cmd)

\* C30 (as claimed): the command disconnect() sends to disable channel n is
\* the command of set_output_enable(False, channel=n), and it addresses the
\* channel in the same form (spacing and separator) as set_ocp_enable,
\* set_ovp_enable and set_output_sense_enable do.
C30_DisableCommandForm ==
    lastOp.name = "disconnect" =>
        \A i \in DOMAIN calls :
            i <= Len(DisconnectChannels) =>
                LET n == PyInt(DisconnectChannels[i])
                    off == PyBool(FALSE)
                IN /\ calls[i].cmd = SetOutputEnableCmd(off, n)
                   /\ ChannelForm(calls[i].cmd) = ChannelForm(SetOcpEnableCmd(off, n))
                   /\ ChannelForm(calls[i].cmd) = ChannelForm(SetOvpEnableCmd(off, n))
                   /\ ChannelForm(calls[i].cmd) = ChannelForm(SetOutputSenseEnableCmd(off, n))

====
